---- MODULE Spec2Model ----
(***************************************************************************)
(* BM25_PLUS retrieval facade (retrieval/BM25Retrieval.py): the index      *)
(* cache built by get_sparse_embedding, single-query and batch retrieval,  *)
(* the top-k selection and the query result cache files.                   *)
(*                                                                         *)
(* Text is a sequence of one-character strings.  Document ordinals are     *)
(* 0-based as in the Python code.  Scores are fixed-point numbers in       *)
(* millionths (the code computes float64).                                 *)
(***************************************************************************)
EXTENDS Integers, Sequences, FiniteSets, TLC

\* ------------------------------------------------------------------ bounds
\* Largest corpus (number of wiki documents).
MaxDocs == 3
\* Longest query batch.
MaxQueries == 2
\* Largest k passed by a caller (callers also pass 0 and -1).
MaxK == 3

\* ---------------------------------------------------------------- fixtures
\* The wiki documents on disk; a corpus is the first n of them.
WikiDocs ==
  << [title |-> <<"a">>, text |-> <<" ", "b">>],
     [title |-> <<"b">>, text |-> <<" ", "a">>],
     [title |-> <<"a">>, text |-> <<"b">>],
     [title |-> <<"b">>, text |-> <<" ", "b", " ", "b">>] >>

\* The question records callers draw batches from (contiguous selections).
\* A record carries "context" and "answers" only when listed in keys.
QARecords ==
  << [question |-> <<"b">>, id |-> "q1", keys |-> {"context", "answers"},
      context |-> "ctx1", answers |-> "ans1"],
     [question |-> <<"z">>, id |-> "q2", keys |-> {},
      context |-> "", answers |-> ""],
     [question |-> <<" ">>, id |-> "q3", keys |-> {"context"},
      context |-> "ctx3", answers |-> ""],
     [question |-> <<"a", "b">>, id |-> "q4", keys |-> {"answers"},
      context |-> "", answers |-> "ans4"] >>

\* ----------------------------------------------------------------- helpers
Min(a, b) == IF a < b THEN a ELSE b
Max(a, b) == IF a > b THEN a ELSE b

None == [none |-> TRUE]

RECURSIVE SumSeq(_)
SumSeq(s) == IF s = <<>> THEN 0 ELSE Head(s) + SumSeq(Tail(s))

RECURSIVE Flatten(_)
Flatten(ss) == IF ss = <<>> THEN <<>> ELSE Head(ss) \o Flatten(Tail(ss))

\* Python slice xs[:k]: the first k elements, or all but the last -k.
SliceTo(xs, k) ==
  SubSeq(xs, 1, IF k >= 0 THEN Min(k, Len(xs)) ELSE Max(Len(xs) + k, 0))

\* xs[::-1]
Reversed(xs) == [i \in 1..Len(xs) |-> xs[Len(xs) + 1 - i]]

\* ---------------------------------------------------------------- tokenizer
\* tokenize_fn: split on whitespace (the tokenizer is supplied by the caller).
RECURSIVE SplitWs(_, _, _)
SplitWs(s, cur, acc) ==
  IF s = <<>>
    THEN (IF cur = <<>> THEN acc ELSE Append(acc, cur))
    ELSE IF Head(s) = " "
      THEN SplitWs(Tail(s), <<>>, IF cur = <<>> THEN acc ELSE Append(acc, cur))
      ELSE SplitWs(Tail(s), Append(cur, Head(s)), acc)

tokenize_fn(s) == SplitWs(s, <<>>, <<>>)

\* Iterating a Python str yields its characters, each a one-character str.
StrItems(s) == [i \in 1..Len(s) |-> <<s[i]>>]

\* ------------------------------------------------------------------ BM25Plus
\* ln(n) in millionths, for the ratios (corpus_size + 1) / df of _calc_idf.
LnMicro(n) ==
  CASE n = 1 -> 0
    [] n = 2 -> 693147
    [] n = 3 -> 1098612
    [] n = 4 -> 1386294
    [] n = 5 -> 1609438
    [] n = 6 -> 1791759
    [] n = 7 -> 1945910

Count(doc, w) == Cardinality({i \in 1..Len(doc) : doc[i] = w})

\* frequencies of BM25._initialize: word -> count for one document.
Frequencies(doc) ==
  [w \in {doc[i] : i \in 1..Len(doc)} |-> Count(doc, w)]

\* BM25Plus(tokenized_corpus): raises ZeroDivisionError on an empty corpus
\* (avgdl = num_doc / corpus_size), so it is only defined for a non-empty one.
BM25Plus(tokenized_corpus) ==
  LET n == Len(tokenized_corpus)
      doc_freqs == [i \in 1..n |-> Frequencies(tokenized_corpus[i])]
      vocab == UNION {DOMAIN doc_freqs[i] : i \in 1..n}
      nd == [w \in vocab |-> Cardinality({i \in 1..n : w \in DOMAIN doc_freqs[i]})]
  IN [corpus_size |-> n,
      avgdl |-> << SumSeq([i \in 1..n |-> Len(tokenized_corpus[i])]), n >>,
      doc_freqs |-> doc_freqs,
      idf |-> [w \in vocab |-> LnMicro(n + 1) - LnMicro(nd[w])],
      doc_len |-> [i \in 1..n |-> Len(tokenized_corpus[i])]]

\* One query term's contribution to document i (1-based position):
\* idf * (delta + q_freq*(k1+1) / (k1*(1 - b + b*doc_len/avgdl) + q_freq))
\* with k1 = 1.5, b = 0.75, delta = 1, avgdl = total/n; the fraction is
\* 20*f*total / (3*total + 9*dl*n + 8*f*total).
TermScore(index, q, i) ==
  LET f == IF q \in DOMAIN index.doc_freqs[i] THEN index.doc_freqs[i][q] ELSE 0
      idf == IF q \in DOMAIN index.idf THEN index.idf[q] ELSE 0
      total == index.avgdl[1]
      n == index.avgdl[2]
      den == 3 * total + 9 * index.doc_len[i] * n + 8 * f * total
  IN (idf * (den + 20 * f * total)) \div den

\* BM25Plus.get_scores(query): query is iterated item by item.
RECURSIVE get_scores(_, _)
get_scores(index, query) ==
  IF query = <<>>
    THEN [i \in 1..index.corpus_size |-> 0]
    ELSE LET rest == get_scores(index, Tail(query))
         IN [i \in 1..index.corpus_size |->
               TermScore(index, Head(query), i) + rest[i]]

\* ------------------------------------------------------------- numpy sorting
\* np.argsort(v) with the default kind: ascending by value; the default sort is
\* not stable, so the order of equal values is whatever the build's sort
\* gives.  ties lists the ordinals in that order (the identity for a stable
\* sort).  The result holds 0-based ordinals.
TieRank(ties, d) == CHOOSE r \in 1..Len(ties) : ties[r] = d

Before(v, ties, d, e) ==
  \/ v[d + 1] < v[e + 1]
  \/ v[d + 1] = v[e + 1] /\ TieRank(ties, d) < TieRank(ties, e)

argsort(v, ties) ==
  [i \in 1..Len(v) |->
     CHOOSE d \in 0..(Len(v) - 1) :
       Cardinality({e \in 0..(Len(v) - 1) : Before(v, ties, e, d)}) = i - 1]

\* np.sort(v): the values in ascending order.
sort(v) ==
  LET p == argsort(v, [i \in 1..Len(v) |-> i - 1])
  IN [i \in 1..Len(v) |-> v[p[i] + 1]]

\* sorted_score = np.sort(query_scores)[::-1]; doc_score = sorted_score[:k]
TopKScores(query_scores, k) == SliceTo(Reversed(sort(query_scores)), k)

\* Faulty variant of TopKIndices: the [::-1] is missing, the ordinals come in
\* ascending order of score.
TopKIndicesAscending(query_scores, ties, k) ==
  SliceTo(argsort(query_scores, ties), k)

\* sorted_id = np.argsort(query_scores)[::-1]; doc_indices = sorted_id[:k]
TopKIndices(query_scores, ties, k) ==
  SliceTo(Reversed(argsort(query_scores, ties)), k)

\* -------------------------------------------------------------------- pickle
\* A pickle stream: a protocol header, the object's items, a STOP opcode.
PickleFrame(op, arg) == [op |-> op, arg |-> arg]

pickle_dumps(items) ==
  <<PickleFrame("PROTO", 0)>>
    \o [i \in 1..Len(items) |-> PickleFrame("ITEM", items[i])]
    \o <<PickleFrame("STOP", 0)>>

\* pickle.load: a stream that ends before STOP raises (EOFError /
\* UnpicklingError: pickle data was truncated).
pickle_load(data) ==
  IF Len(data) >= 2 /\ data[1].op = "PROTO" /\ data[Len(data)].op = "STOP"
    THEN [ok |-> TRUE, items |-> [i \in 1..(Len(data) - 2) |-> data[i + 1].arg]]
    ELSE [ok |-> FALSE, items |-> <<>>]

\* The pickled state of a BM25Plus object: its attributes, by name.
BM25Attrs == <<"corpus_size", "avgdl", "doc_freqs", "idf", "doc_len">>

BM25GetState(index) ==
  [i \in 1..Len(BM25Attrs) |-> <<BM25Attrs[i], index[BM25Attrs[i]]>>]

BM25SetState(items) ==
  [a \in {items[i][1] : i \in 1..Len(items)} |->
     items[CHOOSE i \in 1..Len(items) : items[i][1] = a][2]]

\* --------------------------------------------------------------------- state
VARIABLES
  wiki_dataset,  \* the corpus the facade was constructed over (title, text)
  tie_order,     \* the order this numpy build's argsort gives equal scores
  bm25,          \* self.bm25: None until get_sparse_embedding sets it
  disk,          \* the files under data_path: path -> [exists, data]
  pc,            \* where the running call stands ("idle": none running,
                 \* "done": it ended and the caller holds ret)
  call,          \* the running (or last) call and its arguments
  locals,        \* doc_scores / doc_indices of a running batch call
  ret            \* how the last call ended and what it returned

vars == <<wiki_dataset, tie_order, bm25, disk, pc, call, locals, ret>>

emd_path == "bm25.bin"
score_path == "BM25_score.bin"
indice_path == "BM25_indice.bin"
Paths == {emd_path, score_path, indice_path}

Absent == [exists |-> FALSE, data |-> <<>>]
isfile(path) == disk[path].exists

wiki_text == [i \in 1..Len(wiki_dataset) |-> wiki_dataset[i].text]
wiki_title == [i \in 1..Len(wiki_dataset) |-> wiki_dataset[i].title]

\* [tokenize_fn(title + text) for title, text in zip(wiki_title, wiki_text)]
tokenized_corpus ==
  [i \in 1..Len(wiki_dataset) |-> tokenize_fn(wiki_title[i] \o wiki_text[i])]

\* ------------------------------------------------------------- call inputs
Corpora == {SubSeq(WikiDocs, 1, n) : n \in 0..Min(MaxDocs, Len(WikiDocs))}

Orders(n) ==
  {t \in [1..n -> 0..(n - 1)] : \A i, j \in 1..n : i # j => t[i] # t[j]}

\* dataset.select(range(i, j)): a contiguous selection of at most MaxQueries.
Datasets ==
  {SubSeq(QARecords, w[1], w[2]) :
     w \in {x \in (1..Len(QARecords)) \X (0..Len(QARecords)) :
              x[2] >= x[1] - 1 /\ x[2] - x[1] + 1 <= MaxQueries}}

Questions(dataset) == [i \in 1..Len(dataset) |-> dataset[i].question]

QueryStrs == {QARecords[i].question : i \in 1..Len(QARecords)}

Ks == (-1)..MaxK

NoCall == [op |-> "none", arg |-> <<>>, k |-> 0]
NoLocals == [doc_scores |-> <<>>, doc_indices |-> <<>>]

\* The outcome of a call: status "ok" or the exception raised; branch tells
\* which side of the cache test ran; tokenized and wrote record what the call
\* touched (whether tokenize_fn ran, which files it opened for writing).
Outcome(status, branch, doc_scores, doc_indices, out, tokenized, wrote) ==
  [status |-> status, branch |-> branch, doc_scores |-> doc_scores,
   doc_indices |-> doc_indices, out |-> out, tokenized |-> tokenized,
   wrote |-> wrote]

Raised(status, branch, tokenized) ==
  Outcome(status, branch, <<>>, <<>>, <<>>, tokenized, {})

NoRet == Raised("none", "none", FALSE)
Running == Raised("running", "none", FALSE)

Init ==
  /\ wiki_dataset \in Corpora
  /\ tie_order \in Orders(Len(wiki_dataset))
  /\ bm25 = None
  /\ disk = [p \in Paths |-> Absent]
  /\ pc = "idle"
  /\ call = NoCall
  /\ locals = NoLocals
  /\ ret = NoRet

\* One more frame of the pickle of items reaches the file at path.
WriteFrame(path, items) ==
  LET full == pickle_dumps(items)
      data == disk[path].data
  IN [disk EXCEPT ![path].data = Append(data, full[Len(data) + 1])]

\* ------------------------------------------------------ get_sparse_embedding
\* Faulty variant of GseLoad: the cache test is ignored and the index is built and
\* dumped again.
GseAlwaysRebuilds ==
  /\ pc = "idle"
  /\ isfile(emd_path)
  /\ call' = [op |-> "get_sparse_embedding", arg |-> <<>>, k |-> 0]
  /\ bm25' = BM25Plus(tokenized_corpus)
  /\ disk' = [disk EXCEPT ![emd_path] = [exists |-> TRUE, data |-> <<>>]]
  /\ pc' = "dump_emd"
  /\ ret' = Running
  /\ UNCHANGED <<wiki_dataset, tie_order, locals>>

\* Faulty variant of GseLoad: a cache file that does not load is swallowed and the
\* index rebuilt over it.
GseLoadFallsBack ==
  /\ pc = "idle"
  /\ isfile(emd_path)
  /\ call' = [op |-> "get_sparse_embedding", arg |-> <<>>, k |-> 0]
  /\ LET r == pickle_load(disk[emd_path].data)
     IN IF r.ok
          THEN /\ bm25' = BM25SetState(r.items)
               /\ ret' = Raised("ok", "load", FALSE)
               /\ pc' = "done"
               /\ disk' = disk
          ELSE /\ bm25' = BM25Plus(tokenized_corpus)
               /\ disk' = [disk EXCEPT ![emd_path] =
                             [exists |-> TRUE, data |-> <<>>]]
               /\ pc' = "dump_emd"
               /\ ret' = Running
  /\ UNCHANGED <<wiki_dataset, tie_order, locals>>

\* Faulty variant of GseLoad: self.bm25 is cleared before the file is read, so
\* a failed load leaves the facade without an index.
GseLoadResets ==
  /\ pc = "idle"
  /\ isfile(emd_path)
  /\ call' = [op |-> "get_sparse_embedding", arg |-> <<>>, k |-> 0]
  /\ LET r == pickle_load(disk[emd_path].data)
     IN IF r.ok
          THEN /\ bm25' = BM25SetState(r.items)
               /\ ret' = Raised("ok", "load", FALSE)
          ELSE /\ bm25' = None
               /\ ret' = Raised("UnpicklingError", "load", FALSE)
  /\ pc' = "done"
  /\ UNCHANGED <<wiki_dataset, tie_order, disk, locals>>

\* The cache file exists: pickle.load it (an exception leaves self.bm25 as is).
GseLoad ==
  /\ pc = "idle"
  /\ isfile(emd_path)
  /\ call' = [op |-> "get_sparse_embedding", arg |-> <<>>, k |-> 0]
  /\ LET r == pickle_load(disk[emd_path].data)
     IN IF r.ok
          THEN /\ bm25' = BM25SetState(r.items)
               /\ ret' = Raised("ok", "load", FALSE)
          ELSE /\ bm25' = bm25
               /\ ret' = Raised("UnpicklingError", "load", FALSE)
  /\ pc' = "done"
  /\ UNCHANGED <<wiki_dataset, tie_order, disk, locals>>

\* Faulty variant of GseBuild: an empty corpus is indexed like any other.
GseBuildsEmptyCorpus ==
  /\ pc = "idle"
  /\ ~isfile(emd_path)
  /\ call' = [op |-> "get_sparse_embedding", arg |-> <<>>, k |-> 0]
  /\ bm25' = BM25Plus(tokenized_corpus)
  /\ disk' = [disk EXCEPT ![emd_path] = [exists |-> TRUE, data |-> <<>>]]
  /\ pc' = "dump_emd"
  /\ ret' = Running
  /\ UNCHANGED <<wiki_dataset, tie_order, locals>>

\* No cache file: tokenize the corpus, build BM25Plus, open the file "wb".
GseBuild ==
  /\ pc = "idle"
  /\ ~isfile(emd_path)
  /\ call' = [op |-> "get_sparse_embedding", arg |-> <<>>, k |-> 0]
  /\ IF Len(tokenized_corpus) = 0
       THEN /\ ret' = Raised("ZeroDivisionError", "build", TRUE)
            /\ pc' = "done"
            /\ UNCHANGED <<bm25, disk>>
       ELSE /\ bm25' = BM25Plus(tokenized_corpus)
            /\ disk' = [disk EXCEPT ![emd_path] = [exists |-> TRUE, data |-> <<>>]]
            /\ pc' = "dump_emd"
            /\ ret' = Running
  /\ UNCHANGED <<wiki_dataset, tie_order, locals>>

\* pickle.dump(self.bm25, file), a frame at a time.
GseDump ==
  /\ pc = "dump_emd"
  /\ disk' = WriteFrame(emd_path, BM25GetState(bm25))
  /\ IF disk'[emd_path].data = pickle_dumps(BM25GetState(bm25))
       THEN /\ pc' = "done"
            /\ ret' = Outcome("ok", "build", <<>>, <<>>, <<>>, TRUE, {emd_path})
       ELSE UNCHANGED <<pc, ret>>
  /\ UNCHANGED <<wiki_dataset, tie_order, bm25, call, locals>>

\* pickle.dump raises OSError as the first write reaches the device (no space,
\* I/O error): the call ends with the index set in memory and an empty file.
GseDumpFails ==
  /\ pc = "dump_emd"
  /\ disk[emd_path].data = <<>>
  /\ pc' = "done"
  /\ ret' = Raised("OSError", "build", TRUE)
  /\ UNCHANGED <<wiki_dataset, tie_order, bm25, disk, call, locals>>

\* ---------------------------------------------------------- get_relevant_doc
NotReadyAssertion == "AssertionError: get_sparse_embedding first"
ZeroScoreAssertion == "AssertionError: sum of scores is 0"

\* Faulty variant of get_relevant_doc: the zero-score assertion is missing.
get_relevant_doc_unasserted(query, k) ==
  IF bm25 = None
    THEN Raised("AttributeError", "none", FALSE)
    ELSE LET query_scores == get_scores(bm25, StrItems(query))
         IN Outcome("ok", "none", TopKScores(query_scores, k),
                    TopKIndices(query_scores, tie_order, k), <<>>, FALSE, {})

\* Faulty variant of get_relevant_doc: the stored results of a batch are
\* served when both result files are there.
get_relevant_doc_cached(query, k) ==
  IF bm25 = None
    THEN Raised("AttributeError", "none", FALSE)
    ELSE LET query_scores == get_scores(bm25, StrItems(query))
             s == pickle_load(disk[score_path].data)
             x == pickle_load(disk[indice_path].data)
         IN IF /\ isfile(score_path) /\ isfile(indice_path)
               /\ s.ok /\ x.ok /\ s.items # <<>> /\ x.items # <<>>
              THEN Outcome("ok", "load", s.items[1], x.items[1], <<>>,
                           FALSE, {})
              ELSE IF SumSeq(query_scores) = 0
                THEN Raised(ZeroScoreAssertion, "none", FALSE)
                ELSE Outcome("ok", "none", TopKScores(query_scores, k),
                             TopKIndices(query_scores, tie_order, k), <<>>,
                             FALSE, {})

\* self.bm25.get_scores(query) is handed the query string itself.
get_relevant_doc(query, k) ==
  IF bm25 = None
    THEN Raised("AttributeError", "none", FALSE)
    ELSE LET query_scores == get_scores(bm25, StrItems(query))
         IN IF SumSeq(query_scores) = 0
              THEN Raised(ZeroScoreAssertion, "none", FALSE)
              ELSE Outcome("ok", "none", TopKScores(query_scores, k),
                           TopKIndices(query_scores, tie_order, k), <<>>,
                           FALSE, {})

\* retrieve(query: str, topk): the loop over range(topk) indexes doc_scores[i].
retrieve_str(query, topk) ==
  IF bm25 = None
    THEN Raised(NotReadyAssertion, "none", FALSE)
    ELSE LET r == get_relevant_doc(query, topk)
         IN IF r.status # "ok"
              THEN r
              ELSE IF topk > Len(r.doc_scores)
                THEN Raised("IndexError", "none", FALSE)
                ELSE Outcome("ok", "none", r.doc_scores, <<>>,
                             [i \in 1..Max(topk, 0) |->
                                wiki_text[r.doc_indices[i] + 1]],
                             FALSE, {})

GetRelevantDoc ==
  /\ pc = "idle"
  /\ \E query \in QueryStrs, k \in Ks :
       /\ call' = [op |-> "get_relevant_doc", arg |-> query, k |-> k]
       /\ ret' = get_relevant_doc(query, k)
  /\ pc' = "done"
  /\ UNCHANGED <<wiki_dataset, tie_order, bm25, disk, locals>>

RetrieveStr ==
  /\ pc = "idle"
  /\ \E query \in QueryStrs, topk \in Ks :
       /\ call' = [op |-> "retrieve_str", arg |-> query, k |-> topk]
       /\ ret' = retrieve_str(query, topk)
  /\ pc' = "done"
  /\ UNCHANGED <<wiki_dataset, tie_order, bm25, disk, locals>>

\* ----------------------------------------------------- get_relevant_doc_bulk
RECURSIVE JoinSpace(_)
JoinSpace(texts) ==
  IF texts = <<>> THEN <<>>
  ELSE IF Len(texts) = 1 THEN texts[1]
  ELSE texts[1] \o <<" ">> \o JoinSpace(Tail(texts))

\* One row of total in retrieve(Dataset).
Row(example, indices) ==
  LET tmp == [question |-> example.question,
              id |-> example.id,
              context_id |-> indices,
              context |-> JoinSpace([i \in 1..Len(indices) |->
                                       wiki_text[indices[i] + 1]])]
  IN IF "context" \in example.keys /\ "answers" \in example.keys
       THEN ("original_context" :> example.context
               @@ "answers" :> example.answers) @@ tmp
       ELSE tmp

\* What the call returns once get_relevant_doc_bulk has returned
\* (doc_scores, doc_indices): the pair itself, or retrieve's list of rows.
BulkReturn(c, doc_scores, doc_indices, branch, tokenized, wrote) ==
  IF c.op = "get_relevant_doc_bulk"
    THEN Outcome("ok", branch, doc_scores, doc_indices, <<>>, tokenized, wrote)
    ELSE IF Len(c.arg) > Len(doc_indices)
      THEN Raised("IndexError", branch, tokenized)
      ELSE Outcome("ok", branch, doc_scores, doc_indices,
                   [idx \in 1..Len(c.arg) |-> Row(c.arg[idx], doc_indices[idx])],
                   tokenized, wrote)

\* The scoring loop of the else branch.
BulkScores(queries, k) ==
  [i \in 1..Len(queries) |->
     TopKScores(get_scores(bm25, tokenize_fn(queries[i])), k)]

BulkIndices(queries, k) ==
  [i \in 1..Len(queries) |->
     TopKIndices(get_scores(bm25, tokenize_fn(queries[i])), tie_order, k)]

\* Faulty variant of BulkBegin: the stored arrays are served only when they
\* have one entry per query of the call; otherwise the batch is scored again.
BulkBeginValidates(c, queries) ==
  /\ call' = c
  /\ LET s == pickle_load(disk[score_path].data)
         x == pickle_load(disk[indice_path].data)
     IN IF /\ isfile(score_path) /\ isfile(indice_path)
           /\ ~(s.ok /\ x.ok /\ Len(s.items) # Len(queries))
          THEN /\ ret' = IF s.ok /\ x.ok
                           THEN BulkReturn(c, s.items, x.items, "load", FALSE, {})
                           ELSE Raised("UnpicklingError", "load", FALSE)
               /\ pc' = "done"
               /\ UNCHANGED <<disk, locals>>
          ELSE IF queries # <<>> /\ bm25 = None
            THEN /\ ret' = Raised("AttributeError", "score", TRUE)
                 /\ pc' = "done"
                 /\ UNCHANGED <<disk, locals>>
            ELSE LET doc_scores == BulkScores(queries, c.k)
                     doc_indices == BulkIndices(queries, c.k)
                 IN IF SumSeq(Flatten(doc_scores)) = 0
                      THEN /\ ret' = Raised(ZeroScoreAssertion, "score",
                                            queries # <<>>)
                           /\ pc' = "done"
                           /\ UNCHANGED <<disk, locals>>
                      ELSE /\ locals' = [doc_scores |-> doc_scores,
                                         doc_indices |-> doc_indices]
                           /\ disk' = [disk EXCEPT ![score_path] =
                                         [exists |-> TRUE, data |-> <<>>]]
                           /\ pc' = "dump_score"
                           /\ ret' = Running
  /\ UNCHANGED <<wiki_dataset, tie_order, bm25>>

\* Faulty variant of BulkBegin: the arrays are dumped before the zero-score
\* assertion is evaluated.
BulkBeginDumpsBeforeAssert(c, queries) ==
  /\ call' = c
  /\ IF isfile(score_path) /\ isfile(indice_path)
       THEN LET s == pickle_load(disk[score_path].data)
                x == pickle_load(disk[indice_path].data)
            IN /\ ret' = IF s.ok /\ x.ok
                           THEN BulkReturn(c, s.items, x.items, "load", FALSE, {})
                           ELSE Raised("UnpicklingError", "load", FALSE)
               /\ pc' = "done"
               /\ UNCHANGED <<disk, locals>>
       ELSE IF queries # <<>> /\ bm25 = None
         THEN /\ ret' = Raised("AttributeError", "score", TRUE)
              /\ pc' = "done"
              /\ UNCHANGED <<disk, locals>>
         ELSE LET doc_scores == BulkScores(queries, c.k)
                  doc_indices == BulkIndices(queries, c.k)
              IN IF SumSeq(Flatten(doc_scores)) = 0
                   THEN /\ ret' = Raised(ZeroScoreAssertion, "score", queries # <<>>)
                        /\ pc' = "done"
                        /\ disk' = [disk EXCEPT
                             ![score_path] =
                               [exists |-> TRUE,
                                data |-> pickle_dumps(doc_scores)],
                             ![indice_path] =
                               [exists |-> TRUE,
                                data |-> pickle_dumps(doc_indices)]]
                        /\ UNCHANGED locals
                   ELSE /\ locals' = [doc_scores |-> doc_scores,
                                      doc_indices |-> doc_indices]
                        /\ disk' = [disk EXCEPT ![score_path] =
                                      [exists |-> TRUE, data |-> <<>>]]
                        /\ pc' = "dump_score"
                        /\ ret' = Running
  /\ UNCHANGED <<wiki_dataset, tie_order, bm25>>

\* get_relevant_doc_bulk up to its first write, for call c over queries.
BulkBegin(c, queries) ==
  /\ call' = c
  /\ IF isfile(score_path) /\ isfile(indice_path)
       THEN LET s == pickle_load(disk[score_path].data)
                x == pickle_load(disk[indice_path].data)
            IN /\ ret' = IF s.ok /\ x.ok
                           THEN BulkReturn(c, s.items, x.items, "load", FALSE, {})
                           ELSE Raised("UnpicklingError", "load", FALSE)
               /\ pc' = "done"
               /\ UNCHANGED <<disk, locals>>
       ELSE IF queries # <<>> /\ bm25 = None
         THEN /\ ret' = Raised("AttributeError", "score", TRUE)
              /\ pc' = "done"
              /\ UNCHANGED <<disk, locals>>
         ELSE LET doc_scores == BulkScores(queries, c.k)
                  doc_indices == BulkIndices(queries, c.k)
              IN IF SumSeq(Flatten(doc_scores)) = 0
                   THEN /\ ret' = Raised(ZeroScoreAssertion, "score", queries # <<>>)
                        /\ pc' = "done"
                        /\ UNCHANGED <<disk, locals>>
                   ELSE /\ locals' = [doc_scores |-> doc_scores,
                                      doc_indices |-> doc_indices]
                        /\ disk' = [disk EXCEPT ![score_path] =
                                      [exists |-> TRUE, data |-> <<>>]]
                        /\ pc' = "dump_score"
                        /\ ret' = Running
  /\ UNCHANGED <<wiki_dataset, tie_order, bm25>>

GetRelevantDocBulk ==
  /\ pc = "idle"
  /\ \E dataset \in Datasets, k \in Ks :
       BulkBegin([op |-> "get_relevant_doc_bulk", arg |-> Questions(dataset),
                  k |-> k], Questions(dataset))

\* retrieve(dataset: Dataset, topk)
RetrieveDataset ==
  /\ pc = "idle"
  /\ \E dataset \in Datasets, topk \in Ks :
       LET c == [op |-> "retrieve_dataset", arg |-> dataset, k |-> topk]
       IN IF bm25 = None
            THEN /\ call' = c
                 /\ ret' = Raised(NotReadyAssertion, "none", FALSE)
                 /\ pc' = "done"
                 /\ UNCHANGED <<wiki_dataset, tie_order, bm25, disk, locals>>
            ELSE BulkBegin(c, Questions(dataset))

\* pickle.dump(doc_scores, f), a frame at a time.
DumpScore ==
  /\ pc = "dump_score"
  /\ disk' = WriteFrame(score_path, locals.doc_scores)
  /\ pc' = IF disk'[score_path].data = pickle_dumps(locals.doc_scores)
             THEN "open_indice" ELSE pc
  /\ UNCHANGED <<wiki_dataset, tie_order, bm25, call, locals, ret>>

\* open(indice_path, "wb")
OpenIndice ==
  /\ pc = "open_indice"
  /\ disk' = [disk EXCEPT ![indice_path] = [exists |-> TRUE, data |-> <<>>]]
  /\ pc' = "dump_indice"
  /\ UNCHANGED <<wiki_dataset, tie_order, bm25, call, locals, ret>>

\* pickle.dump(doc_indices, f), a frame at a time; then the call returns.
DumpIndice ==
  /\ pc = "dump_indice"
  /\ disk' = WriteFrame(indice_path, locals.doc_indices)
  /\ IF disk'[indice_path].data = pickle_dumps(locals.doc_indices)
       THEN /\ pc' = "done"
            /\ ret' = BulkReturn(call, locals.doc_scores, locals.doc_indices,
                                 "score", TRUE, {score_path, indice_path})
            /\ locals' = NoLocals
       ELSE UNCHANGED <<pc, ret, locals>>
  /\ UNCHANGED <<wiki_dataset, tie_order, bm25, call>>

\* ------------------------------------------------------------------- process
\* The caller takes the result (or the exception) of the call that ended.
Return ==
  /\ pc = "done"
  /\ pc' = "idle"
  /\ call' = NoCall
  /\ ret' = NoRet
  /\ UNCHANGED <<wiki_dataset, tie_order, bm25, disk, locals>>

\* The process dies at any point (files keep what reached them) and a new one
\* constructs the facade: self.bm25 = None.
Crash ==
  /\ bm25' = None
  /\ pc' = "idle"
  /\ call' = NoCall
  /\ locals' = NoLocals
  /\ ret' = NoRet
  /\ UNCHANGED <<wiki_dataset, tie_order, disk>>

Next ==
  \/ GseLoad
  \/ GseBuild
  \/ GseDump
  \/ GetRelevantDoc
  \/ RetrieveStr
  \/ GetRelevantDocBulk
  \/ RetrieveDataset
  \/ DumpScore
  \/ OpenIndice
  \/ DumpIndice
  \/ Return
  \/ Crash

Spec == Init /\ [][Next]_vars

\* The program on a device whose writes may fail.
NextIO ==
  \/ Next
  \/ GseDumpFails

SpecIO == Init /\ [][NextIO]_vars

\* ==================================================================== claims
SingleOps == {"get_relevant_doc", "retrieve_str"}
BulkOps == {"get_relevant_doc_bulk", "retrieve_dataset"}
ScoringOps == SingleOps \cup BulkOps

\* The query strings of the batch call at hand.
CallQueries ==
  IF call.op = "retrieve_dataset" THEN Questions(call.arg) ELSE call.arg

\* No item of the query is a word of the index.
OutOfVocab(items) == \A i \in 1..Len(items) : items[i] \notin DOMAIN bm25.idf

Zeros(n) == [i \in 1..n |-> 0]

\* What the selection may keep: min(k, corpus_size) entries.
KeptLen(k) == Min(k, bm25.corpus_size)

\* ------------------------------------------------------------------------ C1
\* C1: while the index is unset, every scoring entry point (retrieve with a
\* string or a batch, get_relevant_doc, get_relevant_doc_bulk) fails and
\* returns no results, whatever cache files exist on disk.
C1_ScoringBeforeIndexFails ==
  (pc = "done" /\ call.op \in ScoringOps /\ bm25 = None)
    => /\ ret.status # "ok"
       /\ ret.doc_scores = <<>>
       /\ ret.doc_indices = <<>>

RanksFirst(v, d, e) ==
  \/ v[d + 1] > v[e + 1]
  \/ v[d + 1] = v[e + 1] /\ d < e

ClaimedTopK(v, ordinals) ==
  /\ \A i, j \in 1..Len(ordinals) :
       i < j => RanksFirst(v, ordinals[i], ordinals[j])
  /\ \A d \in 0..(Len(v) - 1) :
       (\A i \in 1..Len(ordinals) : ordinals[i] # d)
         => \A i \in 1..Len(ordinals) : RanksFirst(v, ordinals[i], d)

\* C3: for k >= 1 the top-k selection of get_relevant_doc and
\* get_relevant_doc_bulk returns ordinals by score descending, the lower
\* ordinal first among equal scores (and kept at the k cut-off).
C3_TopKLowerOrdinalFirst ==
  (pc = "done" /\ ret.status = "ok" /\ call.k >= 1)
    => /\ call.op = "get_relevant_doc"
            => ClaimedTopK(get_scores(bm25, StrItems(call.arg)), ret.doc_indices)
       /\ (call.op = "get_relevant_doc_bulk" /\ ret.branch = "score")
            => \A i \in 1..Len(call.arg) :
                 ClaimedTopK(get_scores(bm25, tokenize_fn(call.arg[i])),
                             ret.doc_indices[i])

\* ------------------------------------------------------------------------ C4
\* C4: whenever no dump of the index is running (so also after any crash), the
\* index cache path does not exist or holds a complete pickle.
C4_IndexCacheNeverPartial ==
  pc # "dump_emd"
    => \/ ~isfile(emd_path)
       \/ pickle_load(disk[emd_path].data).ok

\* ------------------------------------------------------------------------ C5
\* C5: a batch call either re-scores or loads a complete score/indice pair
\* with one entry per query of the same run; it never meets a partial file.
C5_BatchLoadsOnlyCompletePair ==
  (pc = "done" /\ call.op \in BulkOps /\ ret.branch # "none")
    => \/ ret.branch = "score"
       \/ /\ ret.branch = "load"
          /\ pickle_load(disk[score_path].data).ok
          /\ pickle_load(disk[indice_path].data).ok
          /\ Len(disk[score_path].data) = Len(disk[indice_path].data)
          /\ ret.status # "UnpicklingError"

\* ------------------------------------------------------------------------ C6
\* C6: a scoring call with k <= 0 is rejected: it ends in an error and returns
\* no result list.
C6_NonPositiveKRejected ==
  (pc = "done" /\ call.op \in ScoringOps /\ call.k <= 0)
    => ret.status # "ok"

\* ------------------------------------------------------------------------ C7
\* C7: with a built index and k >= 1, single-query retrieval and freshly
\* scored batch retrieval of queries that score complete and return exactly
\* min(k, corpus_size) entries per query, also for k > corpus_size.
C7_ReturnsMinKCorpusSize ==
  (pc = "done" /\ bm25 # None /\ call.k >= 1)
    => /\ (call.op \in SingleOps /\ ~OutOfVocab(StrItems(call.arg)))
            => /\ ret.status = "ok"
               /\ Len(ret.doc_scores) = KeptLen(call.k)
               /\ call.op = "retrieve_str" => Len(ret.out) = KeptLen(call.k)
       /\ (call.op \in BulkOps /\ ret.branch = "score"
             /\ ret.status # ZeroScoreAssertion)
            => /\ ret.status = "ok"
               /\ \A i \in 1..Len(CallQueries) :
                    Len(ret.doc_indices[i]) = KeptLen(call.k)

\* ------------------------------------------------------------------------ C8
\* A get_sparse_embedding call starts in this step.
GseCalled == pc = "idle" /\ call'.op = "get_sparse_embedding"

\* C8: with no cache file, get_sparse_embedding installs the index built from
\* the corpus and dumps it; called again with the dumped file in place it is
\* a cache hit: it installs an index equal to the built one (and to the one
\* already installed), tokenizes nothing and leaves the file as it is.
C8_SecondCallIsCacheHit ==
  [][ /\ (GseCalled /\ ~isfile(emd_path) /\ Len(wiki_dataset) > 0)
           => /\ bm25' = BM25Plus(tokenized_corpus)
              /\ pc' = "dump_emd"
      /\ (pc = "dump_emd" /\ pc' = "done")
           => /\ ret'.status = "ok"
              /\ ret'.branch = "build"
              /\ pickle_load(disk'[emd_path].data).ok
              /\ BM25SetState(pickle_load(disk'[emd_path].data).items) = bm25
      /\ (GseCalled /\ isfile(emd_path) /\ pickle_load(disk[emd_path].data).ok)
           => /\ pc' = "done"
              /\ ret'.status = "ok"
              /\ ret'.branch = "load"
              /\ ~ret'.tokenized
              /\ bm25' = BM25Plus(tokenized_corpus)
              /\ bm25 # None => bm25' = bm25
              /\ disk' = disk
    ]_vars

\* A call ended as a cache hit on the file an earlier call dumped.
C8_Witness ==
  /\ pc = "done"
  /\ call.op = "get_sparse_embedding"
  /\ ret.status = "ok"
  /\ ret.branch = "load"
  /\ bm25 = BM25Plus(tokenized_corpus)
  /\ disk[emd_path].data = pickle_dumps(BM25GetState(bm25))

\* ------------------------------------------------------------------------ C9
\* C9: when the index cache file exists but does not deserialize,
\* get_sparse_embedding ends in an error; it tokenizes and builds nothing,
\* leaves the file as it is and leaves self.bm25 as it was.
C9_CorruptCacheIsReported ==
  [][ (GseCalled /\ isfile(emd_path) /\ ~pickle_load(disk[emd_path].data).ok)
        => /\ pc' = "done"
           /\ ret'.status = "UnpicklingError"
           /\ ~ret'.tokenized
           /\ disk' = disk
           /\ bm25' = bm25
    ]_vars

\* get_sparse_embedding met a truncated cache file and raised.
C9_Witness ==
  /\ pc = "done"
  /\ call.op = "get_sparse_embedding"
  /\ ret.status = "UnpicklingError"
  /\ isfile(emd_path)
  /\ ~pickle_load(disk[emd_path].data).ok
  /\ bm25 = None

\* ----------------------------------------------------------------------- C10
\* C10: over a corpus with zero documents get_sparse_embedding ends in an
\* error, no index cache file is ever written and self.bm25 stays None.
C10_EmptyCorpusBuildFails ==
  Len(wiki_dataset) = 0
    => /\ bm25 = None
       /\ ~isfile(emd_path)
       /\ pc # "dump_emd"
       /\ (pc = "done" /\ call.op = "get_sparse_embedding")
            => /\ ret.status = "ZeroDivisionError"
               /\ ret.wrote = {}

\* The build over the empty corpus was tried and raised.
C10_Witness ==
  /\ Len(wiki_dataset) = 0
  /\ pc = "done"
  /\ call.op = "get_sparse_embedding"
  /\ ret.status = "ZeroDivisionError"

\* ----------------------------------------------------------------------- C11
\* C11: single-query retrieval (retrieve with a string, get_relevant_doc)
\* neither reads nor writes the query result cache files: the call leaves the
\* disk as it was, and what it returns is what scoring the query against the
\* index in memory gives, whether or not the two files exist. A step that
\* changes a result file belongs to a batch call.
C11_SingleQueryIgnoresResultCache ==
  [][ /\ (pc = "idle" /\ call'.op \in SingleOps) =>
           /\ disk' = disk
           /\ pc' = "done"
           /\ ret'.branch = "none"
           /\ ret'.wrote = {}
           /\ IF bm25 = None
                THEN ret'.status \in {"AttributeError", NotReadyAssertion}
                ELSE \A v \in {get_scores(bm25, StrItems(call'.arg))} :
                     \A ix \in {TopKIndices(v, tie_order, call'.k)} :
                        IF SumSeq(v) = 0
                          THEN ret'.status = ZeroScoreAssertion
                          ELSE IF ret'.status = "ok"
                            THEN /\ ret'.doc_scores = TopKScores(v, call'.k)
                                 /\ IF call'.op = "get_relevant_doc"
                                      THEN ret'.doc_indices = ix
                                      ELSE ret'.out =
                                             [i \in 1..Max(call'.k, 0) |->
                                                wiki_text[ix[i] + 1]]
                            ELSE /\ ret'.status = "IndexError"
                                 /\ call'.op = "retrieve_str"
      /\ (\/ disk'[score_path] # disk[score_path]
          \/ disk'[indice_path] # disk[indice_path]) =>
           (IF pc = "idle" THEN call' ELSE call).op \in BulkOps ]_vars

\* A single-query call has returned results while both result files exist.
C11_Witness ==
  /\ pc = "done"
  /\ call.op \in SingleOps
  /\ ret.status = "ok"
  /\ isfile(score_path)
  /\ isfile(indice_path)

\* ----------------------------------------------------------------------- C12
\* C12: every row that retrieve(Dataset) returns carries original_context
\* exactly when its input record has a context field and answers exactly when
\* its input record has an answers field, each with the input value; a record
\* with only one of the two fields has that one passed through.
C12_FieldsPassThroughIndependently ==
  (pc = "done" /\ call.op = "retrieve_dataset" /\ ret.status = "ok") =>
    \A idx \in 1..Len(call.arg) :
      LET example == call.arg[idx]
          row == ret.out[idx]
      IN /\ "original_context" \in DOMAIN row <=> "context" \in example.keys
         /\ "answers" \in DOMAIN row <=> "answers" \in example.keys
         /\ "original_context" \in DOMAIN row =>
              row["original_context"] = example.context
         /\ "answers" \in DOMAIN row => row["answers"] = example.answers

\* ----------------------------------------------------------------------- C13
\* C13: for a built index, a query string q and k >= 1, get_relevant_doc(q, k)
\* ends as get_relevant_doc_bulk([q], k) ends when it scores (no result cache):
\* both score tokenize_fn(q), so both raise the zero-score assertion or both
\* return the same top-k scores and document ordinals.
C13_SingleEqualsBatchOfOne ==
  (pc = "done" /\ call.op = "get_relevant_doc" /\ bm25 # None /\ call.k >= 1) =>
    LET batch_scores == BulkScores(<<call.arg>>, call.k)
        batch_indices == BulkIndices(<<call.arg>>, call.k)
    IN IF SumSeq(Flatten(batch_scores)) = 0
         THEN ret.status = ZeroScoreAssertion
         ELSE /\ ret.status = "ok"
              /\ ret.doc_scores = batch_scores[1]
              /\ ret.doc_indices = batch_indices[1]

\* ----------------------------------------------------------------------- C14
\* A get_relevant_doc_bulk call starts, directly or from retrieve(Dataset).
BulkCalled ==
  /\ pc = "idle"
  /\ call'.op \in BulkOps
  /\ ret'.status # NotReadyAssertion

\* The queries of the batch call that starts.
CalledQueries ==
  IF call'.op = "retrieve_dataset" THEN Questions(call'.arg) ELSE call'.arg

\* The top-k scores and ordinals of each query of the batch, in batch order.
ScoredInOrder(queries, k) ==
  [doc_scores |->
     [i \in 1..Len(queries) |->
        TopKScores(get_scores(bm25, tokenize_fn(queries[i])), k)],
   doc_indices |->
     [i \in 1..Len(queries) |->
        TopKIndices(get_scores(bm25, tokenize_fn(queries[i])), tie_order, k)]]

\* C14 as stated: with a set index, a get_relevant_doc_bulk call that finds
\* both result files returns the stored arrays and leaves the disk alone, and
\* one that misses a file scores every query in order and goes on to write the
\* files.
C14_CacheHitElseScoreAndWrite ==
  [][ (BulkCalled /\ call'.op = "get_relevant_doc_bulk" /\ bm25 # None) =>
        IF isfile(score_path) /\ isfile(indice_path)
          THEN /\ disk' = disk
               /\ ret'.status = "ok"
               /\ ret'.doc_scores = pickle_load(disk[score_path].data).items
               /\ ret'.doc_indices = pickle_load(disk[indice_path].data).items
               /\ ~ret'.tokenized
          ELSE /\ pc' = "dump_score"
               /\ \A fresh \in {ScoredInOrder(CalledQueries, call'.k)} :
                    locals' = fresh ]_vars

\* C14: a get_relevant_doc_bulk call that finds both result files scores
\* nothing and writes nothing, whatever the queries and k: it returns the
\* stored arrays when both files deserialize and raises when one is truncated.
\* A call that misses a file scores every query in order (AttributeError
\* with an unset index and a non-empty batch); scores that sum to zero raise
\* the assertion with the disk untouched, any other scores are written to the
\* score file and then the indice file, and returned.
C14_CacheHitOrScoreThenWrite ==
  [][ /\ BulkCalled =>
           IF isfile(score_path) /\ isfile(indice_path)
             THEN /\ disk' = disk
                  /\ pc' = "done"
                  /\ ret'.branch = "load"
                  /\ ~ret'.tokenized
                  /\ ret'.wrote = {}
                  /\ \A s \in {pickle_load(disk[score_path].data)} :
                     \A x \in {pickle_load(disk[indice_path].data)} :
                       IF s.ok /\ x.ok
                         THEN call'.op = "get_relevant_doc_bulk" =>
                                /\ ret'.status = "ok"
                                /\ ret'.doc_scores = s.items
                                /\ ret'.doc_indices = x.items
                         ELSE ret'.status = "UnpicklingError"
             ELSE IF CalledQueries # <<>> /\ bm25 = None
               THEN /\ ret'.status = "AttributeError"
                    /\ pc' = "done"
                    /\ disk' = disk
               ELSE \A fresh \in {ScoredInOrder(CalledQueries, call'.k)} :
                      IF SumSeq(Flatten(fresh.doc_scores)) = 0
                        THEN /\ ret'.status = ZeroScoreAssertion
                             /\ pc' = "done"
                             /\ disk' = disk
                        ELSE /\ pc' = "dump_score"
                             /\ locals' = fresh
                             /\ disk' = [disk EXCEPT ![score_path] =
                                           [exists |-> TRUE, data |-> <<>>]]
      /\ (pc = "dump_score" /\ pc' # "idle") =>
           /\ disk'[indice_path] = disk[indice_path]
           /\ pc' = "open_indice" =>
                pickle_load(disk'[score_path].data) =
                  [ok |-> TRUE, items |-> locals.doc_scores]
      /\ (pc = "dump_indice" /\ pc' = "done") =>
           /\ pickle_load(disk'[score_path].data) =
                [ok |-> TRUE, items |-> locals.doc_scores]
           /\ pickle_load(disk'[indice_path].data) =
                [ok |-> TRUE, items |-> locals.doc_indices]
           /\ ret'.wrote = {score_path, indice_path}
           /\ call.op = "get_relevant_doc_bulk" =>
                /\ ret'.status = "ok"
                /\ ret'.doc_scores = locals.doc_scores
                /\ ret'.doc_indices = locals.doc_indices ]_vars

\* The stored arrays of an earlier batch were returned to a call with another
\* number of queries.
C14_Witness ==
  /\ pc = "done"
  /\ call.op = "get_relevant_doc_bulk"
  /\ ret.branch = "load"
  /\ ret.status = "ok"
  /\ Len(ret.doc_scores) # Len(call.arg)
  /\ ret.doc_scores = pickle_load(disk[score_path].data).items

\* ----------------------------------------------------------------------- C15
\* C15: a batch call whose fresh scores are rejected by the zero-score
\* assertion ends in that error having created or modified no file; as it
\* scored, a result file was missing, and it still is, so the next batch call
\* scores again instead of loading anything of the failed run.
C15_RejectedBatchLeavesNoCache ==
  [][ (pc = "idle" /\ call'.op \in BulkOps
         /\ ret'.status = ZeroScoreAssertion) =>
        /\ pc' = "done"
        /\ ret'.branch = "score"
        /\ ret'.wrote = {}
        /\ ret'.doc_scores = <<>>
        /\ ret'.doc_indices = <<>>
        /\ disk' = disk
        /\ ~(disk'[score_path].exists /\ disk'[indice_path].exists) ]_vars

\* A batch of queries was scored and rejected while the score file of an
\* interrupted run was on disk.
C15_Witness ==
  /\ pc = "done"
  /\ call.op \in BulkOps
  /\ ret.status = ZeroScoreAssertion
  /\ ret.tokenized
  /\ isfile(score_path)
  /\ ~isfile(indice_path)

\* ----------------------------------------------------------------------- C16
IndexReady == bm25 # None

\* C16: within one process an index that is set stays set: no retrieve call,
\* failed scoring call or further get_sparse_embedding call (one that fails on
\* a corrupt cache file included) takes the facade back to self.bm25 = None.
\* Only a new process, which constructs the facade again, starts without one.
C16_IndexReadyIsStable ==
  [][ (IndexReady /\ ~Crash) => IndexReady' ]_vars

\* With the index set, get_sparse_embedding was called again and failed on a
\* cache file that does not deserialize.
C16_Witness ==
  /\ pc = "done"
  /\ call.op = "get_sparse_embedding"
  /\ ret.status = "UnpicklingError"
  /\ IndexReady

\* ----------------------------------------------------------------------- C17
\* The lists are parallel over the score vector v: equally long, each score is
\* v's value at the ordinal in the same position, and no ordinal repeats.
Parallel(v, scores, ordinals) ==
  /\ Len(scores) = Len(ordinals)
  /\ \A i \in 1..Len(ordinals) :
       /\ ordinals[i] \in 0..(Len(v) - 1)
       /\ scores[i] = v[ordinals[i] + 1]
  /\ \A i, j \in 1..Len(ordinals) : i # j => ordinals[i] # ordinals[j]

\* C17: for every freshly scored query (get_relevant_doc, and each query of a
\* batch that was scored rather than loaded) the returned score list and
\* ordinal list are parallel over that query's score vector, ties included.
C17_ScoresParallelToOrdinals ==
  (pc = "done" /\ ret.status = "ok") =>
    /\ call.op = "get_relevant_doc" =>
         Parallel(get_scores(bm25, StrItems(call.arg)),
                  ret.doc_scores, ret.doc_indices)
    /\ (call.op \in BulkOps /\ ret.branch = "score") =>
         /\ Len(ret.doc_scores) = Len(CallQueries)
         /\ Len(ret.doc_indices) = Len(CallQueries)
         /\ \A q \in 1..Len(CallQueries) :
              Parallel(get_scores(bm25, tokenize_fn(CallQueries[q])),
                       ret.doc_scores[q], ret.doc_indices[q])

\* A fresh single-query result holds two documents with the same score.
C17_Witness ==
  /\ pc = "done"
  /\ call.op = "get_relevant_doc"
  /\ ret.status = "ok"
  /\ Len(ret.doc_indices) >= 2
  /\ ret.doc_scores[1] = ret.doc_scores[2]
  /\ ret.doc_indices[1] # ret.doc_indices[2]

====
